---- MODULE Spec2Model ----
(***************************************************************************)
(* Model of verify_chat_performance.py: one run of run(playwright).        *)
(* The script acquires a headless browser, a context and a page, registers *)
(* 13 static request interceptors, navigates to the local application,     *)
(* waits for a textarea, fills it, takes a screenshot and closes the       *)
(* browser.  Every call into the automation layer is one step, and every   *)
(* such call may raise, except browser.close(), which is taken to complete.*)
(***************************************************************************)
EXTENDS Integers, Sequences, FiniteSets, TLC

VARIABLES
    pc,         \* position of run(): the next statement to execute
    browser,    \* "none" | "open" | "closed": the browser handle of line 5
    closeCount, \* number of completed browser.close() calls
    routes,     \* the page's interceptors (RouteTable indices), in registration order
    calls,      \* every call made into the automation layer, in order
    files,      \* screenshot files written to the working directory
    stdout,     \* lines printed
    textarea,   \* [present, value]: the textarea of the loaded application
    navMs,      \* milliseconds page.goto took (-1: not finished)
    waitMs,     \* milliseconds wait_for_selector took (-1: not finished)
    lastReq,    \* the last request the page issued
    lastResp    \* the response that request received (Pending: none yet)

vars == <<pc, browser, closeCount, routes, calls, files, stdout, textarea,
          navMs, waitMs, lastReq, lastResp>>

-----------------------------------------------------------------------------
(* Literals of the script *)

AppUrl == <<"http:", "", "localhost:5173">>
NavTimeout == 60000
WaitTimeout == 30000
FillText == "Testing performance optimization"
ChatPng == "verification_chat.png"
FailedPng == "verification_failed.png"
ErrorPng == "verification_error.png"

EmptyObject == [k \in {} |-> TRUE]
Null == "None"

(* The interceptor table of lines 10-33.  A URL glob is the sequence of   *)
(* its "/"-separated segments.                                             *)
RouteTable ==
    << [glob |-> <<"**", "api", "onboarding", "status">>,
        json |-> [complete |-> TRUE]],
       [glob |-> <<"**", "api", "onboarding", "options">>,
        json |-> [options |-> <<>>]],
       [glob |-> <<"**", "api", "status">>,
        json |-> [state |-> "running", agentName |-> "Milady"]],
       [glob |-> <<"**", "api", "auth", "status">>,
        json |-> [required |-> FALSE, pairingEnabled |-> FALSE,
                  expiresAt |-> Null]],
       [glob |-> <<"**", "api", "workbench", "overview">>,
        json |-> EmptyObject],
       [glob |-> <<"**", "api", "logs">>,
        json |-> [entries |-> <<>>]],
       [glob |-> <<"**", "api", "conversations">>,
        json |-> [conversations |-> << [id |-> "c1", title |-> "Chat 1"] >>]],
       [glob |-> <<"**", "api", "conversations", "*", "messages">>,
        json |-> [messages |->
                   << [id |-> "m1", role |-> "user", text |-> "Hello",
                       timestamp |-> 1],
                      [id |-> "m2", role |-> "assistant", text |-> "Hi there!",
                       timestamp |-> 2] >>]],
       [glob |-> <<"**", "api", "character">>,
        json |-> [character |-> [name |-> "Milady"]]],
       [glob |-> <<"**", "api", "update", "status">>,
        json |-> [channel |-> "dev", currentVersion |-> "1.0.0",
                  latestVersion |-> "1.0.0", updateAvailable |-> FALSE]],
       [glob |-> <<"**", "api", "wallet", "*">>,
        json |-> EmptyObject],
       [glob |-> <<"**", "api", "plugins">>,
        json |-> [plugins |-> <<>>]],
       [glob |-> <<"**", "api", "skills">>,
        json |-> [skills |-> <<>>]] >>

NumRoutes == Len(RouteTable)

-----------------------------------------------------------------------------
(* page.route's URL-glob matching and the dispatch of a request *)

(* One glob token against one URL segment: "*" is any run of characters   *)
(* other than "/", everything else is literal.                            *)
SegMatch(tok, seg) == tok = "*" \/ tok = seg

(* As GlobMatch, with "*" also running across "/" separators. *)
RECURSIVE GlobMatchLoose(_, _)
GlobMatchLoose(glob, url) ==
    IF glob = <<>> THEN url = <<>>
    ELSE IF Head(glob) = "**"
         THEN \E k \in 0..Len(url) :
                 GlobMatchLoose(Tail(glob), SubSeq(url, k + 1, Len(url)))
    ELSE IF Head(glob) = "*"
         THEN \E k \in 1..Len(url) :
                 GlobMatchLoose(Tail(glob), SubSeq(url, k + 1, Len(url)))
    ELSE /\ url # <<>>
         /\ Head(glob) = Head(url)
         /\ GlobMatchLoose(Tail(glob), Tail(url))

(* A glob against the whole URL string (its query included), anchored at  *)
(* both ends.  A leading "**" followed by "/" is any number of whole       *)
(* leading segments; the tokens after it take one segment each, so they    *)
(* must match the last segments of the URL one for one.                    *)
GlobMatch(glob, url) ==
    IF glob # <<>> /\ Head(glob) = "**"
    THEN LET rest == Tail(glob)
             skip == Len(url) - Len(rest)
         IN  /\ skip >= 0
             /\ \A i \in 1..Len(rest) : SegMatch(rest[i], url[skip + i])
    ELSE /\ Len(glob) = Len(url)
         /\ \A i \in 1..Len(glob) : SegMatch(glob[i], url[i])

(* The positions in the page's interceptor list rs whose glob matches url *)
Matching(rs, url) ==
    {i \in 1..Len(rs) : GlobMatch(RouteTable[rs[i]].glob, url)}

Max(S) == CHOOSE m \in S : \A n \in S : n <= m

Unmocked == [status |-> 0, mocked |-> FALSE, json |-> EmptyObject]

(* route.fulfill(json=...): status 200 and the handler's fixed body.  The *)
(* handler takes only the route; it reads nothing of the request.         *)
Fulfill(r) == [status |-> 200, mocked |-> TRUE, json |-> r.json]

(* A request is handed to the most recently registered matching handler;  *)
(* with no matching handler it goes to the network.                       *)
Dispatch(rs, url) ==
    LET m == Matching(rs, url)
    IN  IF m = {} THEN Unmocked ELSE Fulfill(RouteTable[rs[Max(m)]])

-----------------------------------------------------------------------------
(* Inputs: what the environment does to each call *)

Never == -1

(* When the awaited event happens, in ms after the call (Never: not at    *)
(* all); the values sit on both sides of the two timeouts.                *)
Delays == {0, WaitTimeout, NavTimeout - 1, NavTimeout, Never}

InTime(d, timeout) == d # Never /\ d < timeout
Elapsed(d, timeout) == IF InTime(d, timeout) THEN d ELSE timeout

Methods == {"GET", "POST"}

(* URLs the loaded application may request: each mocked endpoint, some   *)
(* with a query string or on another origin, and unmocked ones.           *)
AppPaths ==
    { <<"api", "onboarding", "status">>, <<"api", "onboarding", "options">>,
      <<"api", "status">>, <<"api", "auth", "status">>,
      <<"api", "workbench", "overview">>, <<"api", "logs">>,
      <<"api", "conversations">>, <<"api", "conversations", "c1", "messages">>,
      <<"api", "character">>, <<"api", "update", "status">>,
      <<"api", "wallet", "addresses">>, <<"api", "wallet", "balances?chain=evm">>,
      <<"api", "plugins">>, <<"api", "skills">>,
      <<"api", "status?ts=1">>, <<"api", "conversations", "c1">>,
      <<"api", "wallet", "nfts", "1">>, <<"api", "config">>, <<"">> }

SampleUrls ==
    {AppUrl \o p : p \in AppPaths}
      \cup { <<"https:", "", "cdn.example", "v1", "api", "status">>,
             <<"http:", "", "localhost:5173", "next?to=", "api", "logs">> }

NoReq == [url |-> <<>>, method |-> ""]
Pending == [status |-> -1, mocked |-> FALSE, json |-> EmptyObject]

Count(seq, x) == Cardinality({i \in 1..Len(seq) : seq[i] = x})

Line(fmt, arg) == [fmt |-> fmt, arg |-> arg]

-----------------------------------------------------------------------------
(* run(playwright), lines 4-61 *)

Init ==
    /\ pc = "launch"
    /\ browser = "none"
    /\ closeCount = 0
    /\ routes = <<>>
    /\ calls = <<>>
    /\ files = {}
    /\ stdout = <<>>
    /\ textarea = [present |-> FALSE, value |-> ""]
    /\ navMs = -1
    /\ waitMs = -1
    /\ lastReq = NoReq
    /\ lastResp = Pending

(* An exception that no handler of run() catches: it leaves run(). *)
Raise(call) ==
    /\ pc' = "raised"
    /\ calls' = Append(calls, call)

(* line 5 *)
Launch(ok) ==
    /\ pc = "launch"
    /\ IF ok
       THEN /\ browser' = "open"
            /\ pc' = "new_context"
            /\ calls' = Append(calls, "launch")
       ELSE /\ Raise("launch")
            /\ UNCHANGED browser
    /\ UNCHANGED <<closeCount, routes, files, stdout, textarea, navMs, waitMs,
                   lastReq, lastResp>>

(* line 6 *)
NewContext(ok) ==
    /\ pc = "new_context"
    /\ IF ok
       THEN /\ pc' = "new_page"
            /\ calls' = Append(calls, "new_context")
       ELSE Raise("new_context")
    /\ UNCHANGED <<browser, closeCount, routes, files, stdout, textarea, navMs,
                   waitMs, lastReq, lastResp>>

(* line 7 *)
NewPage(ok) ==
    /\ pc = "new_page"
    /\ IF ok
       THEN /\ pc' = "route"
            /\ calls' = Append(calls, "new_page")
       ELSE Raise("new_page")
    /\ UNCHANGED <<browser, closeCount, routes, files, stdout, textarea, navMs,
                   waitMs, lastReq, lastResp>>

(* Route leaving the registration loop one route early. *)
RouteOffByOne(ok) ==
    /\ pc = "route"
    /\ IF ok
       THEN /\ routes' = Append(routes, Len(routes) + 1)
            /\ pc' = IF Len(routes) + 1 = NumRoutes - 1 THEN "goto" ELSE "route"
            /\ calls' = Append(calls, "route")
       ELSE /\ Raise("route")
            /\ UNCHANGED routes
    /\ UNCHANGED <<browser, closeCount, files, stdout, textarea, navMs, waitMs,
                   lastReq, lastResp>>

(* lines 10-33: the next page.route call of the thirteen *)
Route(ok) ==
    /\ pc = "route"
    /\ IF ok
       THEN /\ routes' = Append(routes, Len(routes) + 1)
            /\ pc' = IF Len(routes) + 1 = NumRoutes THEN "goto" ELSE "route"
            /\ calls' = Append(calls, "route")
       ELSE /\ Raise("route")
            /\ UNCHANGED routes
    /\ UNCHANGED <<browser, closeCount, files, stdout, textarea, navMs, waitMs,
                   lastReq, lastResp>>

(* lines 35-37: the print, then page.goto starts loading the application *)
GotoStart ==
    /\ pc = "goto"
    /\ stdout' = Append(stdout, Line("Navigating to app...", ""))
    /\ calls' = Append(calls, "goto")
    /\ pc' = "navigating"
    /\ UNCHANGED <<browser, closeCount, routes, files, textarea, navMs, waitMs,
                   lastReq, lastResp>>

(* line 37 returns: the load event came within the timeout *)
GotoReturn(d) ==
    /\ pc = "navigating"
    /\ InTime(d, NavTimeout)
    /\ navMs' = d
    /\ pc' = "wait"
    /\ UNCHANGED <<browser, closeCount, routes, calls, files, stdout, textarea,
                   waitMs, lastReq, lastResp>>

(* GotoRaise with the handler trying the navigation a second time. *)
GotoRaiseRetry(d, neterr) ==
    /\ pc = "navigating"
    /\ neterr \/ ~InTime(d, NavTimeout)
    /\ navMs' = Elapsed(d, NavTimeout)
    /\ stdout' = Append(stdout,
                   Line("Navigation failed: ",
                        IF InTime(d, NavTimeout) THEN "Error" ELSE "Timeout"))
    /\ pc' = IF Count(calls, "goto") < 2 THEN "goto" ELSE "shot_failed"
    /\ UNCHANGED <<browser, closeCount, routes, calls, files, textarea, waitMs,
                   lastReq, lastResp>>

(* lines 37-39: page.goto raises (a network error at d, or the timeout),  *)
(* the handler prints the error                                           *)
GotoRaise(d, neterr) ==
    /\ pc = "navigating"
    /\ neterr \/ ~InTime(d, NavTimeout)
    /\ navMs' = Elapsed(d, NavTimeout)
    /\ stdout' = Append(stdout,
                   Line("Navigation failed: ",
                        IF InTime(d, NavTimeout) THEN "Error" ELSE "Timeout"))
    /\ pc' = "shot_failed"
    /\ UNCHANGED <<browser, closeCount, routes, calls, files, textarea, waitMs,
                   lastReq, lastResp>>

(* line 41: the screenshot in the navigation handler; nothing catches it *)
ScreenshotFailed(ok) ==
    /\ pc = "shot_failed"
    /\ IF ok
       THEN /\ files' = files \cup {FailedPng}
            /\ pc' = "close_nav"
            /\ calls' = Append(calls, FailedPng)
       ELSE /\ Raise(FailedPng)
            /\ UNCHANGED files
    /\ UNCHANGED <<browser, closeCount, routes, stdout, textarea, navMs, waitMs,
                   lastReq, lastResp>>

(* lines 42-43: browser.close() and return *)
CloseAfterNavFailure ==
    /\ pc = "close_nav"
    /\ browser' = "closed"
    /\ closeCount' = closeCount + 1
    /\ calls' = Append(calls, "close")
    /\ pc' = "returned"
    /\ UNCHANGED <<routes, files, stdout, textarea, navMs, waitMs, lastReq,
                   lastResp>>

(* lines 57-58: the interaction handler prints the error *)
InteractionFailed(e) ==
    /\ stdout' = Append(stdout, Line("Interaction failed: ", e))
    /\ pc' = "shot_error"

(* lines 45-48: the print, then wait_for_selector("textarea"); a textarea *)
(* appears d ms after the call, or never                                  *)
WaitForSelector(d) ==
    /\ pc = "wait"
    /\ calls' = Append(calls, "wait_for_selector")
    /\ waitMs' = Elapsed(d, WaitTimeout)
    /\ IF InTime(d, WaitTimeout)
       THEN /\ textarea' = [present |-> TRUE, value |-> ""]
            /\ stdout' = Append(stdout, Line("Waiting for chat input...", ""))
            /\ pc' = "fill"
       ELSE /\ stdout' = stdout \o << Line("Waiting for chat input...", ""),
                                      Line("Interaction failed: ", "Timeout") >>
            /\ pc' = "shot_error"
            /\ UNCHANGED textarea
    /\ UNCHANGED <<browser, closeCount, routes, files, navMs, lastReq, lastResp>>

(* Fill that returns without putting the text into the element. *)
FillNothing(ok) ==
    /\ pc = "fill"
    /\ calls' = Append(calls, "fill")
    /\ IF ok
       THEN /\ pc' = "shot_chat"
            /\ UNCHANGED <<stdout, textarea>>
       ELSE /\ InteractionFailed("Error")
            /\ UNCHANGED textarea
    /\ UNCHANGED <<browser, closeCount, routes, files, navMs, waitMs, lastReq,
                   lastResp>>

(* line 51: page.fill("textarea", ...) *)
Fill(ok) ==
    /\ pc = "fill"
    /\ calls' = Append(calls, "fill")
    /\ IF ok
       THEN /\ textarea' = [textarea EXCEPT !.value = FillText]
            /\ pc' = "shot_chat"
            /\ UNCHANGED stdout
       ELSE /\ InteractionFailed("Error")
            /\ UNCHANGED textarea
    /\ UNCHANGED <<browser, closeCount, routes, files, navMs, waitMs, lastReq,
                   lastResp>>

(* ScreenshotChat whose failing call has already created the file. *)
ScreenshotChatPartial(ok) ==
    /\ pc = "shot_chat"
    /\ calls' = Append(calls, ChatPng)
    /\ files' = files \cup {ChatPng}
    /\ IF ok
       THEN /\ stdout' = Append(stdout, Line("Screenshot saved to ", ChatPng))
            /\ pc' = "close"
       ELSE InteractionFailed("Error")
    /\ UNCHANGED <<browser, closeCount, routes, textarea, navMs, waitMs,
                   lastReq, lastResp>>

(* lines 54-55: the success screenshot and its print *)
ScreenshotChat(ok) ==
    /\ pc = "shot_chat"
    /\ calls' = Append(calls, ChatPng)
    /\ IF ok
       THEN /\ files' = files \cup {ChatPng}
            /\ stdout' = Append(stdout, Line("Screenshot saved to ", ChatPng))
            /\ pc' = "close"
       ELSE /\ InteractionFailed("Error")
            /\ UNCHANGED files
    /\ UNCHANGED <<browser, closeCount, routes, textarea, navMs, waitMs,
                   lastReq, lastResp>>

(* line 59: the screenshot in the interaction handler; nothing catches it *)
ScreenshotError(ok) ==
    /\ pc = "shot_error"
    /\ IF ok
       THEN /\ files' = files \cup {ErrorPng}
            /\ pc' = "close"
            /\ calls' = Append(calls, ErrorPng)
       ELSE /\ Raise(ErrorPng)
            /\ UNCHANGED files
    /\ UNCHANGED <<browser, closeCount, routes, stdout, textarea, navMs, waitMs,
                   lastReq, lastResp>>

(* line 61: browser.close(), the last statement of run() *)
Close ==
    /\ pc = "close"
    /\ browser' = "closed"
    /\ closeCount' = closeCount + 1
    /\ calls' = Append(calls, "close")
    /\ pc' = "returned"
    /\ UNCHANGED <<routes, files, stdout, textarea, navMs, waitMs, lastReq,
                   lastResp>>

(* The page is loading or loaded and the browser is open: the application *)
(* can issue requests.                                                    *)
PageLive ==
    /\ browser = "open"
    /\ pc \in {"navigating", "shot_failed", "close_nav", "wait", "fill",
               "shot_chat", "shot_error", "close"}

(* The application issues a request for u with method m. *)
Request(u, m) ==
    /\ PageLive
    /\ lastReq = NoReq \/ lastResp # Pending
    /\ lastReq' = [url |-> u, method |-> m]
    /\ lastResp' = Pending
    /\ UNCHANGED <<pc, browser, closeCount, routes, calls, files, stdout,
                   textarea, navMs, waitMs>>

(* Handle with a handler that fulfils GET requests only. *)
HandleGetOnly ==
    /\ PageLive
    /\ lastReq # NoReq /\ lastResp = Pending
    /\ lastResp' = IF lastReq.method = "GET"
                   THEN Dispatch(routes, lastReq.url) ELSE Unmocked
    /\ UNCHANGED <<pc, browser, closeCount, routes, calls, files, stdout,
                   textarea, navMs, waitMs, lastReq>>

(* The page's interceptors answer the request in flight (lines 10-33:     *)
(* each handler is lambda route: route.fulfill(json=...)).                *)
Handle ==
    /\ PageLive
    /\ lastReq # NoReq /\ lastResp = Pending
    /\ lastResp' = Dispatch(routes, lastReq.url)
    /\ UNCHANGED <<pc, browser, closeCount, routes, calls, files, stdout,
                   textarea, navMs, waitMs, lastReq>>

Next ==
    \/ \E ok \in BOOLEAN : Launch(ok)
    \/ \E ok \in BOOLEAN : NewContext(ok)
    \/ \E ok \in BOOLEAN : NewPage(ok)
    \/ \E ok \in BOOLEAN : Route(ok)
    \/ GotoStart
    \/ \E d \in Delays : GotoReturn(d)
    \/ \E d \in Delays, neterr \in BOOLEAN : GotoRaise(d, neterr)
    \/ \E ok \in BOOLEAN : ScreenshotFailed(ok)
    \/ CloseAfterNavFailure
    \/ \E d \in Delays : WaitForSelector(d)
    \/ \E ok \in BOOLEAN : Fill(ok)
    \/ \E ok \in BOOLEAN : ScreenshotChat(ok)
    \/ \E ok \in BOOLEAN : ScreenshotError(ok)
    \/ Close
    \/ \E u \in SampleUrls, m \in Methods : Request(u, m)
    \/ Handle

Spec == Init /\ [][Next]_vars

-----------------------------------------------------------------------------
(* The interceptors as a function of the URL: the page with all thirteen  *)
(* routes registered and navigation under way, one request in flight.     *)

MaxSegs == 4

(* The segments URLs are built from: every word of the globs, and one    *)
(* segment that carries a query string.                                   *)
Segs ==
    {"api", "onboarding", "status", "options", "auth", "workbench", "overview",
     "logs", "conversations", "messages", "character", "update", "wallet",
     "plugins", "skills", "status?ts=1"}

InitGlob ==
    /\ pc = "navigating"
    /\ browser = "open"
    /\ closeCount = 0
    /\ routes = [i \in 1..NumRoutes |-> i]
    /\ calls = <<"launch", "new_context", "new_page">>
                 \o [i \in 1..NumRoutes |-> "route"] \o <<"goto">>
    /\ files = {}
    /\ stdout = << Line("Navigating to app...", "") >>
    /\ textarea = [present |-> FALSE, value |-> ""]
    /\ navMs = -1
    /\ waitMs = -1
    /\ \E n \in 1..MaxSegs : \E u \in [1..n -> Segs] :
          lastReq = [url |-> u, method |-> "GET"]
    /\ lastResp = Pending

NextGlob == Handle

SpecGlob == InitGlob /\ [][NextGlob]_vars

-----------------------------------------------------------------------------
(* Vocabulary of the properties *)

Called(x) == Count(calls, x) > 0
Printed(fmt) == \E i \in 1..Len(stdout) : stdout[i].fmt = fmt
First(seq, x) == CHOOSE i \in 1..Len(seq) : seq[i] = x /\ \A j \in 1..(i - 1) : seq[j] # x
IsPrefix(a, b) == Len(a) <= Len(b) /\ \A i \in 1..Len(a) : a[i] = b[i]

Ended == pc \in {"returned", "raised"}
NavFailed == Printed("Navigation failed: ")
NavSucceeded == Called("goto") /\ pc # "navigating" /\ ~NavFailed
IntFailed == Printed("Interaction failed: ")
Handled == lastReq # NoReq /\ lastResp # Pending

(* C1: in every run that reached navigation, whichever way it ended        *)
(* (success, navigation failure, interaction failure, or a diagnostic      *)
(* screenshot that raised), browser.close() was called exactly once.       *)
C1_ClosedExactlyOnce ==
    (Ended /\ Called("goto")) => (closeCount = 1 /\ browser = "closed")

(* C2: once the routes are registered no exception leaves run(): the run   *)
(* ends by returning, with the browser released.                           *)
C2_NoExceptionEscapes ==
    (Ended /\ Len(routes) = NumRoutes) => (pc = "returned" /\ browser = "closed")

(* C3: after a failed page.goto the run attempts verification_failed.png,  *)
(* closes the browser and returns, and never waits for the textarea,       *)
(* fills it, or takes either of the other two screenshots.                 *)
C3_NavFailureTerminal ==
    NavFailed =>
        /\ ~Called("wait_for_selector") /\ ~Called("fill")
        /\ ~Called(ChatPng) /\ ~Called(ErrorPng)
        /\ Ended => (Called(FailedPng) /\ pc = "returned" /\ browser = "closed")

(* C4: when navigation succeeded, the textarea appeared within the wait    *)
(* timeout and neither fill nor the screenshot failed, the textarea holds  *)
(* the literal text, verification_chat.png is written after the fill, and  *)
(* neither diagnostic file is written.                                     *)
C4_SuccessPath ==
    /\ (NavSucceeded /\ textarea.present /\ ~IntFailed /\ pc \in {"close", "returned"}) =>
          /\ textarea.value = FillText
          /\ files = {ChatPng}
          /\ 0 <= waitMs /\ waitMs < WaitTimeout
          /\ First(calls, "wait_for_selector") < First(calls, "fill")
          /\ First(calls, "fill") < First(calls, ChatPng)
    /\ ChatPng \in files => textarea.value = FillText

C4_Witness ==
    /\ pc = "returned" /\ NavSucceeded /\ ~IntFailed
    /\ textarea.value = FillText /\ ChatPng \in files

(* C5: when navigation succeeded and the wait, the fill or the success     *)
(* screenshot raised, the run attempts verification_error.png, never       *)
(* prints the "Screenshot saved" line, and still closes the browser.       *)
C5_InteractionFailure ==
    IntFailed =>
        /\ ~Printed("Screenshot saved to ")
        /\ ChatPng \notin files
        /\ Ended => (Called(ErrorPng) /\ browser = "closed" /\ closeCount = 1)

(* C6: at most one of the three files is written, each on its own path.    *)
C6_AtMostOneFile ==
    /\ Cardinality(files) <= 1
    /\ ChatPng \in files =>
          (NavSucceeded /\ textarea.present /\ textarea.value = FillText /\ ~IntFailed)
    /\ FailedPng \in files => NavFailed
    /\ ErrorPng \in files => (NavSucceeded /\ IntFailed)

C6_Witness == pc = "returned" /\ files = {ErrorPng} /\ Called(ChatPng)

(* C7: every answered request whose URL matches a registered glob got      *)
(* status 200 and that glob's fixed body, whatever its method or query;    *)
(* a request matching the messages glob got exactly the messages m1, m2.   *)
C7_MockedResponses ==
    Handled =>
        /\ \A i \in 1..NumRoutes :
              GlobMatch(RouteTable[i].glob, lastReq.url) =>
                 (lastResp.status = 200 /\ lastResp.json = RouteTable[i].json)
        /\ GlobMatch(<<"**", "api", "conversations", "*", "messages">>, lastReq.url) =>
              lastResp.json =
                 [messages |->
                    << [id |-> "m1", role |-> "user", text |-> "Hello", timestamp |-> 1],
                       [id |-> "m2", role |-> "assistant", text |-> "Hi there!",
                        timestamp |-> 2] >>]

C7_Witness ==
    /\ Handled /\ lastReq.method = "POST" /\ lastResp.status = 200
    /\ lastReq.url = AppUrl \o <<"api", "conversations", "c1", "messages">>

(* C8: the calls follow the fixed order acquisition, thirteen routes,      *)
(* goto, wait, fill, success screenshot; every route is registered before  *)
(* goto starts and before any request is issued; close is the last call.   *)
MainOrder ==
    <<"launch", "new_context", "new_page">> \o [i \in 1..NumRoutes |-> "route"]
        \o <<"goto", "wait_for_selector", "fill", ChatPng>>
IsMain(c) == c \notin {FailedPng, ErrorPng, "close"}

C8_StrictSequence ==
    /\ IsPrefix(SelectSeq(calls, IsMain), MainOrder)
    /\ Called("goto") => (Len(routes) = NumRoutes /\ Count(calls, "route") = NumRoutes)
    /\ lastReq # NoReq => Len(routes) = NumRoutes
    /\ \A i \in 1..Len(calls) :
          /\ calls[i] = "close" => i = Len(calls)
          /\ calls[i] \in {FailedPng, ErrorPng} =>
                (Called("goto") /\ First(calls, "goto") < i /\ i >= Len(calls) - 1)
    /\ browser = "closed" => (pc = "returned" /\ calls[Len(calls)] = "close")

C8_Witness ==
    /\ pc = "returned" /\ Handled
    /\ SelectSeq(calls, IsMain) = MainOrder /\ calls[Len(calls)] = "close"

(* C9 as stated: in every run goto is attempted exactly once and the wait, *)
(* the fill and each screenshot at most once.                              *)
Retryable == {"goto", "wait_for_selector", "fill", ChatPng, FailedPng, ErrorPng}

C9_NoRetry ==
    /\ \A c \in Retryable : Count(calls, c) <= 1
    /\ Ended => Count(calls, "goto") = 1

(* C9 amended: no call is attempted twice; goto is attempted exactly once  *)
(* in every run that completed acquisition and route registration.         *)
C9_NoRetryAmended ==
    /\ \A c \in Retryable : Count(calls, c) <= 1
    /\ (Ended /\ Len(routes) = NumRoutes) => Count(calls, "goto") = 1

C9_Witness ==
    /\ pc = "returned" /\ IntFailed /\ Called("fill") /\ Called(ErrorPng)
    /\ Count(calls, "goto") = 1

Reverse(seq) == [i \in 1..Len(seq) |-> seq[Len(seq) + 1 - i]]

(* C10: no URL matches more than one of the thirteen globs, so a request   *)
(* gets the same response with the routes registered in the opposite       *)
(* order.                                                                  *)
C10_NoOverlap ==
    Handled =>
        /\ Cardinality(Matching(routes, lastReq.url)) <= 1
        /\ lastResp = Dispatch(Reverse(routes), lastReq.url)

C10_Witness ==
    /\ Handled /\ lastResp.mocked
    /\ Len(lastReq.url) = MaxSegs
    /\ lastReq.url[Len(lastReq.url)] = "status"
    /\ lastReq.url[Len(lastReq.url) - 1] = "auth"

====
